---- MODULE Spec2Model ----
(***************************************************************************)
(* Model of utils/rate_limiter.py: the three throttle primitives            *)
(* (TokenBucket, SlidingWindow, LeakyBucket), the RateLimiter orchestrator  *)
(* with its blocked-IP map, threat assessment, statistics and background    *)
(* reaper, and the DDoSProtection pattern counter.                          *)
(*                                                                          *)
(* Time.  time.time() / datetime.now() are modelled by the variable now,    *)
(* counted in clock ticks of 1/TicksPerSecond second.  One call samples the *)
(* clock once.                                                              *)
(*                                                                          *)
(* Fractions.  Rates are "units per minute" (the limiter passes             *)
(* requests_per_minute / 60.0 as the per-second rate), so every token or    *)
(* fill level is an exact multiple of 1/TokenScale and is stored as that    *)
(* integer multiple.  Floating-point rounding is not modelled.              *)
(***************************************************************************)
EXTENDS Integers, Sequences, FiniteSets, TLC

VARIABLES
    now,            \* the wall clock, in ticks
    steps,          \* number of operations performed so far
    last,           \* what the most recent operation was given and returned
    bucket,         \* a TokenBucket / SlidingWindow / LeakyBucket used on its own
    hist,           \* the calls made on bucket: <<[t, ok, ...], ...>>
    default_rule,   \* RateLimiter.default_rule
    clients,        \* RateLimiter.clients: client key -> ClientInfo
    rate_limiters,  \* RateLimiter.rate_limiters: client key -> primitive
    blocked_ips,    \* RateLimiter.blocked_ips: ip -> unblock time
    contacted,      \* the IPs is_allowed has been called for (history)
    admitted,       \* client key -> calls answered "Allowed" since its
                    \* ClientInfo was created (history)
    next_sweep,     \* earliest time the reaper wakes from time.sleep(300)
    suspicious_patterns,  \* DDoSProtection.suspicious_patterns: key -> count
    analysed,       \* <<ip, endpoint>> -> analyze_request_pattern calls made
    pc,             \* thread -> the statement of is_allowed it is about to run
    loc,            \* thread -> the local variables of its is_allowed call
    heap,           \* object id -> ClientInfo or primitive (threaded model)
    lock            \* the holder of RateLimiter.lock and of DDoSProtection.lock

vars == <<now, steps, last, bucket, hist, default_rule, clients,
          rate_limiters, blocked_ips, contacted, admitted, next_sweep,
          suspicious_patterns, analysed, pc, loc, heap, lock>>

threadVars == <<pc, loc, heap, lock>>

ddosVars == <<suspicious_patterns, analysed>>

sideVars == <<ddosVars, threadVars>>

limiterVars == <<default_rule, clients, rate_limiters, blocked_ips, contacted,
                 admitted, next_sweep>>

(***************************************************************************)
(* Bounds of the model                                                      *)
(***************************************************************************)
TicksPerSecond == 10
MaxSteps == 4
MaxPrimSteps == 5
MaxCapacity == 2
MaxConsume == 2

(***************************************************************************)
(* Program constants                                                        *)
(***************************************************************************)
RateDivisor == 60
WindowSeconds == 60
ReapAgeSeconds == 86400
ReapSleepSeconds == 300

TokenScale == RateDivisor * TicksPerSecond
WindowTicks == WindowSeconds * TicksPerSecond
ReapAgeTicks == ReapAgeSeconds * TicksPerSecond
ReapSleepTicks == ReapSleepSeconds * TicksPerSecond

Min(a, b) == IF a <= b THEN a ELSE b
Max(a, b) == IF a >= b THEN a ELSE b

NoBucket == [kind |-> "none"]
NoCall == [op |-> "none"]
EmptyMap == [k \in {} |-> 0]
MapRemove(m, ks) == [k \in (DOMAIN m) \ ks |-> m[k]]
MapPut(m, k, v) == [x \in (DOMAIN m) \cup {k} |-> IF x = k THEN v ELSE m[x]]

(***************************************************************************)
(* TokenBucket                                                              *)
(***************************************************************************)
\* TokenBucket.__init__: a full bucket.  perMinute / 60 is refill_rate.
TokenBucketNew(capacity, perMinute, t) ==
    [kind |-> "TokenBucket", capacity |-> capacity,
     tokens |-> capacity * TokenScale, rate |-> perMinute, last |-> t]

\* mutant: the refill is not capped at capacity
TokenBucketRefillUncapped(b, t) == b.tokens + (t - b.last) * b.rate

\* min(capacity, tokens + time_passed * refill_rate)
TokenBucketRefill(b, t) ==
    Min(b.capacity * TokenScale, b.tokens + (t - b.last) * b.rate)

\* mutant: the refilled bucket must hold more than n tokens
TokenBucketConsumeStrict(b, n, t) ==
    LET filled == TokenBucketRefill(b, t)
        enough == filled > n * TokenScale
    IN  <<enough,
          [b EXCEPT !.tokens = IF enough THEN filled - n * TokenScale ELSE filled,
                    !.last = t]>>

\* TokenBucket.consume(n) at time t: <<returned value, bucket afterwards>>
TokenBucketConsume(b, n, t) ==
    LET filled == TokenBucketRefill(b, t)
        enough == filled >= n * TokenScale
    IN  <<enough,
          [b EXCEPT !.tokens = IF enough THEN filled - n * TokenScale ELSE filled,
                    !.last = t]>>

(***************************************************************************)
(* SlidingWindow                                                            *)
(***************************************************************************)
SlidingWindowNew(windowTicks, maxRequests) ==
    [kind |-> "SlidingWindow", window_size |-> windowTicks,
     max_requests |-> maxRequests, requests |-> <<>>]

\* while self.requests and self.requests[0] <= now - self.window_size: popleft()
RECURSIVE SlidingWindowTrim(_, _)
SlidingWindowTrim(q, limit) ==
    IF q # <<>> /\ Head(q) <= limit THEN SlidingWindowTrim(Tail(q), limit) ELSE q

\* mutant: len(self.requests) <= self.max_requests
SlidingWindowIsAllowedOffByOne(w, t) ==
    LET kept == SlidingWindowTrim(w.requests, t - w.window_size)
        room == Len(kept) <= w.max_requests
    IN  <<room, [w EXCEPT !.requests = IF room THEN Append(kept, t) ELSE kept]>>

\* SlidingWindow.is_allowed() at time t: <<returned value, window afterwards>>
SlidingWindowIsAllowed(w, t) ==
    LET kept == SlidingWindowTrim(w.requests, t - w.window_size)
        room == Len(kept) < w.max_requests
    IN  <<room, [w EXCEPT !.requests = IF room THEN Append(kept, t) ELSE kept]>>

(***************************************************************************)
(* LeakyBucket                                                              *)
(***************************************************************************)
LeakyBucketNew(capacity, perMinute, t) ==
    [kind |-> "LeakyBucket", capacity |-> capacity, tokens |-> 0,
     rate |-> perMinute, last |-> t]

\* max(0, tokens - time_passed * leak_rate)
LeakyBucketLeak(b, t) == Max(0, b.tokens - (t - b.last) * b.rate)

\* mutant: self.tokens <= self.capacity
LeakyBucketHasRoomInclusive(level, capacity) == level <= capacity * TokenScale

\* the admission test of add_request on the leaked level
LeakyBucketHasRoom(level, capacity) == level < capacity * TokenScale

\* LeakyBucket.add_request() at time t: <<returned value, bucket afterwards>>
LeakyBucketAddRequest(b, t) ==
    LET leaked == LeakyBucketLeak(b, t)
        room == LeakyBucketHasRoom(leaked, b.capacity)
    IN  <<room,
          [b EXCEPT !.tokens = IF room THEN leaked + TokenScale ELSE leaked,
                    !.last = t]>>

(***************************************************************************)
(* RateLimiter                                                              *)
(***************************************************************************)
TOKEN_BUCKET == "token_bucket"
SLIDING_WINDOW == "sliding_window"
FIXED_WINDOW == "fixed_window"
LEAKY_BUCKET == "leaky_bucket"

LOW == "low"
MEDIUM == "medium"
HIGH == "high"
CRITICAL == "critical"
ThreatLevel == {LOW, MEDIUM, HIGH, CRITICAL}

SecondsPerMinute == 60
CriticalRpm == 1000
CriticalViolations == 10
HighRpm == 500
HighViolations == 5
MediumRpm == 200
MediumViolations == 2

NoRule == [none |-> TRUE]     \* rule=None
NoAgent == "None"     \* user_agent=None

\* RateLimiter._get_client_key: md5 of f"{ip}:{user_agent or 'unknown'}".
\* The digest is taken to be injective on the strings it is given.
\* (Likewise isoformat() in the "blocked_until" detail: the time itself.)
GetClientKey(ip, ua) == <<ip, IF ua = NoAgent THEN "unknown" ELSE ua>>

\* ClientInfo(ip_address, user_agent, first_seen=now, last_request=now)
NewClientInfo(ip, ua, t) ==
    [ip_address |-> ip, user_agent |-> ua, first_seen |-> t, last_request |-> t,
     request_count |-> 0, threat_level |-> LOW, violations |-> 0]

\* RateLimiter._update_client_info
UpdateClientInfo(cl, ip, ua, key, t) ==
    LET known == IF key \in DOMAIN cl
                 THEN [cl EXCEPT ![key].last_request = t]
                 ELSE MapPut(cl, key, NewClientInfo(ip, ua, t))
    IN  [known EXCEPT ![key].request_count = @ + 1]

\* requests_per_minute > limit, where requests_per_minute is
\* request_count * 60 / time_diff for time_diff > 0 seconds and 0 otherwise
RpmAbove(c, t, limit) ==
    LET time_diff == t - c.first_seen
    IN  /\ time_diff > 0
        /\ c.request_count * SecondsPerMinute * TicksPerSecond > limit * time_diff

\* mutant: the violation thresholds are compared with >=
ClassifyThreatInclusive(c, t) ==
    IF RpmAbove(c, t, CriticalRpm) \/ c.violations >= CriticalViolations THEN CRITICAL
    ELSE IF RpmAbove(c, t, HighRpm) \/ c.violations >= HighViolations THEN HIGH
    ELSE IF RpmAbove(c, t, MediumRpm) \/ c.violations >= MediumViolations THEN MEDIUM
    ELSE LOW

\* the if/elif chain of _assess_threat_level on one ClientInfo
ClassifyThreat(c, t) ==
    IF RpmAbove(c, t, CriticalRpm) \/ c.violations > CriticalViolations THEN CRITICAL
    ELSE IF RpmAbove(c, t, HighRpm) \/ c.violations > HighViolations THEN HIGH
    ELSE IF RpmAbove(c, t, MediumRpm) \/ c.violations > MediumViolations THEN MEDIUM
    ELSE LOW

\* RateLimiter._assess_threat_level
AssessThreatLevel(cl, key, t) ==
    IF key \notin DOMAIN cl THEN LOW ELSE ClassifyThreat(cl[key], t)

\* mutant: the block duration is not added
BlockIpNoDuration(bl, ip, t, drule) == MapPut(bl, ip, t)

\* RateLimiter._block_ip: the duration is read from self.default_rule
BlockIp(bl, ip, t, drule) ==
    MapPut(bl, ip, t + drule.block_duration_seconds * TicksPerSecond)

\* mutant: the sliding window admits burst_limit requests
GetRateLimiterBurstWindow(rl, key, rule, t) ==
    IF key \in DOMAIN rl THEN rl
    ELSE IF rule.algorithm = TOKEN_BUCKET
         THEN MapPut(rl, key, TokenBucketNew(rule.burst_limit, rule.requests_per_minute, t))
    ELSE IF rule.algorithm = SLIDING_WINDOW
         THEN MapPut(rl, key, SlidingWindowNew(WindowTicks, rule.burst_limit))
    ELSE IF rule.algorithm = LEAKY_BUCKET
         THEN MapPut(rl, key, LeakyBucketNew(rule.burst_limit, rule.requests_per_minute, t))
    ELSE rl

\* RateLimiter._get_rate_limiter: the map afterwards; the lookup
\* self.rate_limiters[client_key] that ends it raises KeyError when the key
\* is still missing (see GetRateLimiterRaises).
GetRateLimiter(rl, key, rule, t) ==
    IF key \in DOMAIN rl THEN rl
    ELSE IF rule.algorithm = TOKEN_BUCKET
         THEN MapPut(rl, key, TokenBucketNew(rule.burst_limit, rule.requests_per_minute, t))
    ELSE IF rule.algorithm = SLIDING_WINDOW
         THEN MapPut(rl, key, SlidingWindowNew(WindowTicks, rule.requests_per_minute))
    ELSE IF rule.algorithm = LEAKY_BUCKET
         THEN MapPut(rl, key, LeakyBucketNew(rule.burst_limit, rule.requests_per_minute, t))
    ELSE rl

GetRateLimiterRaises(rl, key, rule, t) ==
    key \notin DOMAIN GetRateLimiter(rl, key, rule, t)

\* The method is_allowed calls on the primitive for each algorithm, and the
\* class of primitive that has that method.
PrimitiveFor(algorithm) ==
    IF algorithm = TOKEN_BUCKET THEN "TokenBucket"
    ELSE IF algorithm = SLIDING_WINDOW THEN "SlidingWindow"
    ELSE IF algorithm = LEAKY_BUCKET THEN "LeakyBucket"
    ELSE "none"

\* lines 239-246: calling a method the stored primitive does not have
\* raises AttributeError
CheckRaises(prim, rule) ==
    /\ PrimitiveFor(rule.algorithm) # "none"
    /\ prim.kind # PrimitiveFor(rule.algorithm)

\* lines 239-246 when nothing is raised: <<allowed, primitive afterwards>>
CheckRateLimit(prim, rule, t) ==
    IF rule.algorithm = TOKEN_BUCKET THEN TokenBucketConsume(prim, 1, t)
    ELSE IF rule.algorithm = SLIDING_WINDOW THEN SlidingWindowIsAllowed(prim, t)
    ELSE IF rule.algorithm = LEAKY_BUCKET THEN LeakyBucketAddRequest(prim, t)
    ELSE <<TRUE, prim>>

Outcome(cl, rl, bl, raised, allowed, reason, details) ==
    [clients |-> cl, rate_limiters |-> rl, blocked_ips |-> bl,
     raised |-> raised, allowed |-> allowed, reason |-> reason, details |-> details]

\* mutant: the threat level is assessed before violations is incremented
EscalateStaleLevel(cl, rl, bl, t, drule, ip, key) ==
    LET threat_level == AssessThreatLevel(cl, key, t)
        cl1 == [cl EXCEPT ![key].violations = @ + 1]
        cl2 == [cl1 EXCEPT ![key].threat_level = threat_level]
        bl1 == IF threat_level \in {HIGH, CRITICAL} THEN BlockIp(bl, ip, t, drule) ELSE bl
    IN  Outcome(cl2, rl, bl1, "none", FALSE, "Rate limit exceeded",
                [threat_level |-> threat_level, violations |-> cl2[key].violations])

\* mutant: violations starts again from 0 when the denial blocks the IP
EscalateResetOnBlock(cl, rl, bl, t, drule, ip, key) ==
    LET cl1 == [cl EXCEPT ![key].violations = @ + 1]
        threat_level == AssessThreatLevel(cl1, key, t)
        blocks == threat_level \in {HIGH, CRITICAL}
        cl2 == [cl1 EXCEPT ![key].threat_level = threat_level,
                           ![key].violations = IF blocks THEN 0 ELSE @]
        bl1 == IF blocks THEN BlockIp(bl, ip, t, drule) ELSE bl
    IN  Outcome(cl2, rl, bl1, "none", FALSE, "Rate limit exceeded",
                [threat_level |-> threat_level, violations |-> cl1[key].violations])

\* lines 248-268: the primitive denied the request
Escalate(cl, rl, bl, t, drule, ip, key) ==
    LET cl1 == [cl EXCEPT ![key].violations = @ + 1]
        threat_level == AssessThreatLevel(cl1, key, t)
        cl2 == [cl1 EXCEPT ![key].threat_level = threat_level]
        bl1 == IF threat_level \in {HIGH, CRITICAL} THEN BlockIp(bl, ip, t, drule) ELSE bl
    IN  Outcome(cl2, rl, bl1, "none", FALSE, "Rate limit exceeded",
                [threat_level |-> threat_level, violations |-> cl2[key].violations])

\* lines 232-270: the IP is not blocked, whitelisted or blacklisted
Throttle(cl, rl, bl, t, drule, ip, ua, rule) ==
    LET key == GetClientKey(ip, ua)
        cl1 == UpdateClientInfo(cl, ip, ua, key, t)
        rl1 == GetRateLimiter(rl, key, rule, t)
    IN  IF GetRateLimiterRaises(rl, key, rule, t)
        THEN Outcome(cl1, rl1, bl, "KeyError", FALSE, "KeyError", EmptyMap)
        ELSE IF CheckRaises(rl1[key], rule)
        THEN Outcome(cl1, rl1, bl, "AttributeError", FALSE, "AttributeError", EmptyMap)
        ELSE LET chk == CheckRateLimit(rl1[key], rule, t)
                 rl2 == [rl1 EXCEPT ![key] = chk[2]]
             IN  IF chk[1] THEN Outcome(cl1, rl2, bl, "none", TRUE, "Allowed", EmptyMap)
                 ELSE Escalate(cl1, rl2, bl, t, drule, ip, key)

\* mutant: datetime.now() <= self.blocked_ips[ip]
IsBlockedInclusive(bl, ip, t) == ip \in DOMAIN bl /\ t <= bl[ip]

\* line 216-217: ip in self.blocked_ips and datetime.now() < self.blocked_ips[ip]
IsBlocked(bl, ip, t) == ip \in DOMAIN bl /\ t < bl[ip]

\* mutant: the whitelist check is skipped
OnWhitelistSkipped(rule, ip) == FALSE

\* line 224: rule.whitelist and ip_address in rule.whitelist
OnWhitelist(rule, ip) == ip \in rule.whitelist

\* line 228: rule.blacklist and ip_address in rule.blacklist
OnBlacklist(rule, ip) == ip \in rule.blacklist

\* RateLimiter.is_allowed(ip_address, user_agent, rule) at time t
\* mutant: the blacklist is looked up before the block list
IsAllowedBlacklistFirst(cl, rl, bl, t, drule, ip, ua, ruleArg) ==
    LET rule == IF ruleArg = NoRule THEN drule ELSE ruleArg
        bl1 == IF ip \in DOMAIN bl THEN MapRemove(bl, {ip}) ELSE bl
    IN  IF OnBlacklist(rule, ip)
        THEN Outcome(cl, rl, BlockIp(bl1, ip, t, drule), "none", FALSE, "Blacklisted", EmptyMap)
        ELSE IF IsBlocked(bl, ip, t)
        THEN Outcome(cl, rl, bl, "none", FALSE, "IP blocked", [blocked_until |-> bl[ip]])
        ELSE IF OnWhitelist(rule, ip)
        THEN Outcome(cl, rl, bl1, "none", TRUE, "Whitelisted", EmptyMap)
        ELSE Throttle(cl, rl, bl1, t, drule, ip, ua, rule)

\* mutant: the client record is updated before the lists are looked up
IsAllowedCountsFirst(cl, rl, bl, t, drule, ip, ua, ruleArg) ==
    LET rule == IF ruleArg = NoRule THEN drule ELSE ruleArg
        bl1 == IF ip \in DOMAIN bl THEN MapRemove(bl, {ip}) ELSE bl
        cl1 == UpdateClientInfo(cl, ip, ua, GetClientKey(ip, ua), t)
    IN  IF IsBlocked(bl, ip, t)
        THEN Outcome(cl1, rl, bl, "none", FALSE, "IP blocked", [blocked_until |-> bl[ip]])
        ELSE IF OnWhitelist(rule, ip)
        THEN Outcome(cl1, rl, bl1, "none", TRUE, "Whitelisted", EmptyMap)
        ELSE IF OnBlacklist(rule, ip)
        THEN Outcome(cl1, rl, BlockIp(bl1, ip, t, drule), "none", FALSE, "Blacklisted", EmptyMap)
        ELSE Throttle(cl, rl, bl1, t, drule, ip, ua, rule)

IsAllowed(cl, rl, bl, t, drule, ip, ua, ruleArg) ==
    LET rule == IF ruleArg = NoRule THEN drule ELSE ruleArg
        bl1 == IF ip \in DOMAIN bl THEN MapRemove(bl, {ip}) ELSE bl
    IN  IF IsBlocked(bl, ip, t)
        THEN Outcome(cl, rl, bl, "none", FALSE, "IP blocked", [blocked_until |-> bl[ip]])
        ELSE IF OnWhitelist(rule, ip)
        THEN Outcome(cl, rl, bl1, "none", TRUE, "Whitelisted", EmptyMap)
        ELSE IF OnBlacklist(rule, ip)
        THEN Outcome(cl, rl, BlockIp(bl1, ip, t, drule), "none", FALSE, "Blacklisted", EmptyMap)
        ELSE Throttle(cl, rl, bl1, t, drule, ip, ua, rule)

\* one pass of the body of RateLimiter._cleanup_expired at time t
ExpiredIps(bl, t) == {ip \in DOMAIN bl : t > bl[ip]}

\* mutant: timedelta.seconds (the seconds within the day) in place of
\* total_seconds()
OldClientsSecondsOfDay(cl, t) ==
    {key \in DOMAIN cl : (t - cl[key].last_request) % ReapAgeTicks > ReapAgeTicks}

OldClients(cl, t) == {key \in DOMAIN cl : t - cl[key].last_request > ReapAgeTicks}

\* sum(client.request_count for client in self.clients.values())
RECURSIVE SumRequestCounts(_)
SumRequestCounts(cl) ==
    IF DOMAIN cl = {} THEN 0
    ELSE LET key == CHOOSE k \in DOMAIN cl : TRUE
         IN  cl[key].request_count + SumRequestCounts(MapRemove(cl, {key}))

\* the defaultdict counting the clients of each threat level, as a dict
ThreatLevelDistribution(cl) ==
    [lvl \in {cl[key].threat_level : key \in DOMAIN cl} |->
       Cardinality({key \in DOMAIN cl : cl[key].threat_level = lvl})]

\* mutant: the requests are averaged over the clients, none included
GetStatsPlainAverage(cl, bl) ==
    [active_clients |-> Cardinality(DOMAIN cl),
     blocked_ips |-> Cardinality(DOMAIN bl),
     threat_level_distribution |-> ThreatLevelDistribution(cl),
     total_requests |-> SumRequestCounts(cl),
     average_requests_per_client |->
       [num |-> SumRequestCounts(cl), den |-> Cardinality(DOMAIN cl)]]

\* RateLimiter.get_stats; the quotient a / b is kept as [num |-> a, den |-> b]
GetStats(cl, bl) ==
    LET active_clients == Cardinality(DOMAIN cl)
    IN  [active_clients |-> active_clients,
         blocked_ips |-> Cardinality(DOMAIN bl),
         threat_level_distribution |-> ThreatLevelDistribution(cl),
         total_requests |-> SumRequestCounts(cl),
         average_requests_per_client |->
           [num |-> SumRequestCounts(cl), den |-> Max(active_clients, 1)]]

(***************************************************************************)
(* The limiter driven by sequential requests, the clock and the reaper      *)
(***************************************************************************)
Rule(alg, rpm, burst, dur, wl, bl) ==
    [algorithm |-> alg, requests_per_minute |-> rpm, burst_limit |-> burst,
     block_duration_seconds |-> dur, whitelist |-> wl, blacklist |-> bl]

Ips == {"ip1", "ip2"}
UserAgents == {NoAgent, "agent1"}

RuleSliding == Rule(SLIDING_WINDOW, 1, 1, 60, {}, {})
RuleToken == Rule(TOKEN_BUCKET, 60, 1, 120, {"ip1"}, {})
RuleLeaky == Rule(LEAKY_BUCKET, 30, 1, 120, {}, {"ip1"})
RuleFixed == Rule(FIXED_WINDOW, 1, 1, 60, {}, {})

DefaultRules == {RuleSliding}
CallRules == {NoRule, RuleToken, RuleLeaky, RuleFixed}
TimeSteps == {1, WindowTicks, ReapAgeTicks}

\* neither lock is held
FreeLocks == [limiter |-> "free", ddos |-> "free"]

\* the history of admitted calls after a call for key answered reason: a
\* call that reaches the throttle step with no ClientInfo starts a new count
Admit(adm, cl, key, reason) ==
    IF reason \in {"IP blocked", "Whitelisted", "Blacklisted"} THEN adm
    ELSE LET sofar == IF key \in DOMAIN cl /\ key \in DOMAIN adm
                      THEN adm[key] ELSE 0
         IN  MapPut(adm, key, sofar + (IF reason = "Allowed" THEN 1 ELSE 0))

\* no DDoS analysis made yet, no threaded call in progress
SideIdle ==
    /\ suspicious_patterns = EmptyMap
    /\ analysed = EmptyMap
    /\ pc = EmptyMap
    /\ loc = EmptyMap
    /\ heap = EmptyMap
    /\ lock = FreeLocks

EffectiveRule(ruleArg) == IF ruleArg = NoRule THEN default_rule ELSE ruleArg

Init ==
    /\ now = 0
    /\ steps = 0
    /\ last = NoCall
    /\ bucket = NoBucket
    /\ hist = <<>>
    /\ default_rule \in DefaultRules
    /\ clients = EmptyMap
    /\ rate_limiters = EmptyMap
    /\ blocked_ips = EmptyMap
    /\ contacted = {}
    /\ admitted = EmptyMap
    /\ next_sweep = ReapSleepTicks
    /\ SideIdle

\* mutant: a block is seen by calls without a user agent only
RequestAgentScoped(ip, ua, ruleArg) ==
    LET seen == IF ua = NoAgent THEN blocked_ips ELSE EmptyMap
        o == IsAllowed(clients, rate_limiters, seen, now, default_rule,
                       ip, ua, ruleArg)
    IN  /\ steps < MaxSteps
        /\ clients' = o.clients
        /\ rate_limiters' = o.rate_limiters
        /\ blocked_ips' =
             [i \in DOMAIN blocked_ips \cup DOMAIN o.blocked_ips |->
                IF i \in DOMAIN o.blocked_ips THEN o.blocked_ips[i]
                ELSE blocked_ips[i]]
        /\ contacted' = contacted \cup {ip}
        /\ admitted' = Admit(admitted, clients, GetClientKey(ip, ua), o.reason)
        /\ last' = [op |-> "is_allowed", ip |-> ip, ua |-> ua, rule |-> ruleArg,
                    t |-> now, first_contact |-> ip \notin contacted,
                    blocked_before |-> IF ip \in DOMAIN blocked_ips
                                       THEN blocked_ips[ip] ELSE -1,
                    raised |-> o.raised, allowed |-> o.allowed,
                    reason |-> o.reason, details |-> o.details]
        /\ steps' = steps + 1
        /\ UNCHANGED <<now, bucket, hist, default_rule, next_sweep>>
        /\ UNCHANGED sideVars

\* one call of RateLimiter.is_allowed
Request(ip, ua, ruleArg) ==
    LET o == IsAllowed(clients, rate_limiters, blocked_ips, now, default_rule,
                       ip, ua, ruleArg)
    IN  /\ steps < MaxSteps
        /\ clients' = o.clients
        /\ rate_limiters' = o.rate_limiters
        /\ blocked_ips' = o.blocked_ips
        /\ contacted' = contacted \cup {ip}
        /\ admitted' = Admit(admitted, clients, GetClientKey(ip, ua), o.reason)
        /\ last' = [op |-> "is_allowed", ip |-> ip, ua |-> ua, rule |-> ruleArg,
                    t |-> now, first_contact |-> ip \notin contacted,
                    blocked_before |-> IF ip \in DOMAIN blocked_ips
                                       THEN blocked_ips[ip] ELSE -1,
                    raised |-> o.raised, allowed |-> o.allowed,
                    reason |-> o.reason, details |-> o.details]
        /\ steps' = steps + 1
        /\ UNCHANGED <<now, bucket, hist, default_rule, next_sweep>>
        /\ UNCHANGED sideVars

\* the wall clock moves on
Advance(d) ==
    /\ steps < MaxSteps
    /\ now' = now + d
    /\ last' = [op |-> "advance", d |-> d]
    /\ steps' = steps + 1
    /\ UNCHANGED <<bucket, hist, limiterVars>>
    /\ UNCHANGED sideVars

\* the reaper wakes from its sleep and sweeps once
\* mutant: the sweep removes the old clients and keeps their primitives
SweepKeepsPrimitives ==
    LET expired_ips == ExpiredIps(blocked_ips, now)
        old_clients == OldClients(clients, now)
    IN  /\ steps < MaxSteps
        /\ now >= next_sweep
        /\ blocked_ips' = MapRemove(blocked_ips, expired_ips)
        /\ clients' = MapRemove(clients, old_clients)
        /\ next_sweep' = now + ReapSleepTicks
        /\ last' = [op |-> "sweep", t |-> now, expired_ips |-> expired_ips,
                    old_clients |-> old_clients]
        /\ steps' = steps + 1
        /\ admitted' = MapRemove(admitted, old_clients)
        /\ UNCHANGED <<now, bucket, hist, default_rule, contacted, rate_limiters>>
        /\ UNCHANGED sideVars

Sweep ==
    LET expired_ips == ExpiredIps(blocked_ips, now)
        old_clients == OldClients(clients, now)
    IN  /\ steps < MaxSteps
        /\ now >= next_sweep
        /\ blocked_ips' = MapRemove(blocked_ips, expired_ips)
        /\ clients' = MapRemove(clients, old_clients)
        /\ rate_limiters' = MapRemove(rate_limiters, old_clients)
        /\ next_sweep' = now + ReapSleepTicks
        /\ last' = [op |-> "sweep", t |-> now, expired_ips |-> expired_ips,
                    old_clients |-> old_clients]
        /\ steps' = steps + 1
        /\ admitted' = MapRemove(admitted, old_clients)
        /\ UNCHANGED <<now, bucket, hist, default_rule, contacted>>
        /\ UNCHANGED sideVars

\* one call of RateLimiter.get_stats
Stats ==
    /\ steps < MaxSteps
    /\ last' = [op |-> "get_stats", t |-> now,
                stats |-> GetStats(clients, blocked_ips)]
    /\ steps' = steps + 1
    /\ UNCHANGED <<now, bucket, hist, limiterVars, sideVars>>

Next ==
    \/ \E ip \in Ips, ua \in UserAgents, r \in CallRules : Request(ip, ua, r)
    \/ \E d \in TimeSteps : Advance(d)
    \/ Sweep
    \/ Stats

Spec == Init /\ [][Next]_vars

(***************************************************************************)
(* A throttle primitive used on its own                                     *)
(***************************************************************************)
PrimRates == {0, 150, 600, 3000}       \* units per minute
PrimWindows == {TicksPerSecond, 2 * TicksPerSecond}
PrimTimeSteps == {1, TicksPerSecond}

LimiterIdle ==
    /\ default_rule = RuleSliding
    /\ clients = EmptyMap
    /\ rate_limiters = EmptyMap
    /\ blocked_ips = EmptyMap
    /\ contacted = {}
    /\ admitted = EmptyMap
    /\ next_sweep = ReapSleepTicks

InitPrim ==
    /\ now = 0
    /\ steps = 0
    /\ last = NoCall
    /\ hist = <<>>
    /\ bucket \in
         {TokenBucketNew(c, r, 0) : c \in 0..MaxCapacity, r \in PrimRates}
         \cup {LeakyBucketNew(c, r, 0) : c \in 0..MaxCapacity, r \in PrimRates}
         \cup {SlidingWindowNew(w, n) : w \in PrimWindows, n \in 0..MaxCapacity}
    /\ LimiterIdle
    /\ SideIdle

\* what a call on the primitive was given, found and returned
CallRecord(op, n, ok) ==
    [op |-> op, t |-> now, n |-> n, ok |-> ok, before |-> bucket]

Consume(n) ==
    LET r == TokenBucketConsume(bucket, n, now)
    IN  /\ bucket.kind = "TokenBucket"
        /\ steps < MaxPrimSteps
        /\ bucket' = r[2]
        /\ last' = CallRecord("consume", n, r[1])
        /\ hist' = Append(hist, last')
        /\ steps' = steps + 1
        /\ UNCHANGED <<now, limiterVars>>
        /\ UNCHANGED sideVars

WindowCall ==
    LET r == SlidingWindowIsAllowed(bucket, now)
    IN  /\ bucket.kind = "SlidingWindow"
        /\ steps < MaxPrimSteps
        /\ bucket' = r[2]
        /\ last' = CallRecord("is_allowed", 1, r[1])
        /\ hist' = Append(hist, last')
        /\ steps' = steps + 1
        /\ UNCHANGED <<now, limiterVars>>
        /\ UNCHANGED sideVars

AddRequest ==
    LET r == LeakyBucketAddRequest(bucket, now)
    IN  /\ bucket.kind = "LeakyBucket"
        /\ steps < MaxPrimSteps
        /\ bucket' = r[2]
        /\ last' = CallRecord("add_request", 1, r[1])
        /\ hist' = Append(hist, last')
        /\ steps' = steps + 1
        /\ UNCHANGED <<now, limiterVars>>
        /\ UNCHANGED sideVars

PrimAdvance(d) ==
    /\ steps < MaxPrimSteps
    /\ now' = now + d
    /\ last' = [op |-> "advance", d |-> d]
    /\ steps' = steps + 1
    /\ UNCHANGED <<bucket, hist, limiterVars>>
    /\ UNCHANGED sideVars

NextPrim ==
    \/ \E n \in 1..MaxConsume : Consume(n)
    \/ WindowCall
    \/ AddRequest
    \/ \E d \in PrimTimeSteps : PrimAdvance(d)

SpecPrim == InitPrim /\ [][NextPrim]_vars

(***************************************************************************)
(* _assess_threat_level applied to one ClientInfo                           *)
(***************************************************************************)
ThreatKey == GetClientKey("ip1", "agent1")
ThreatCounts == {1, 5, 6, 12}
ThreatViolations == {0, 2, 3, 5, 6, 10, 11}
ThreatElapsed == {0, 1, 3, 6, 15, WindowTicks}

InitThreat ==
    /\ now \in ThreatElapsed
    /\ steps = 0
    /\ last = NoCall
    /\ bucket = NoBucket
    /\ hist = <<>>
    /\ default_rule = RuleSliding
    /\ clients \in
         {EmptyMap} \cup
         {MapPut(EmptyMap, ThreatKey,
                 [NewClientInfo("ip1", "agent1", 0)
                    EXCEPT !.request_count = p[1], !.violations = p[2]]) :
            p \in {q \in ThreatCounts \X ThreatViolations : q[2] <= q[1]}}
    /\ rate_limiters = EmptyMap
    /\ blocked_ips = EmptyMap
    /\ contacted = {}
    /\ admitted = EmptyMap
    /\ next_sweep = ReapSleepTicks
    /\ SideIdle

Assess(key) ==
    /\ steps < MaxSteps
    /\ last' = [op |-> "assess", key |-> key,
                level |-> AssessThreatLevel(clients, key, now)]
    /\ steps' = steps + 1
    /\ UNCHANGED <<now, bucket, hist, limiterVars>>
    /\ UNCHANGED sideVars

NextThreat == \E key \in {ThreatKey, GetClientKey("ip2", NoAgent)} : Assess(key)

SpecThreat == InitThreat /\ [][NextThreat]_vars

(***************************************************************************)
(* Properties                                                               *)
(***************************************************************************)
IsRequest(rec) == rec.op = "is_allowed"
WasBlocked(rec) == rec.blocked_before > rec.t
RuleOf(rec) == EffectiveRule(rec.rule)
NormalReasons == {"Whitelisted", "Blacklisted", "Allowed", "Rate limit exceeded",
                  "KeyError", "AttributeError"}

\* C1: while an IP's unblock time is in the future its entry in blocked_ips
\* stays as it is, every is_allowed call for it returns
\* (false, "IP blocked", {blocked_until}) and raises no client's violations;
\* a call made once the unblock time has elapsed is not answered "IP blocked"
\* but by the whitelist / blacklist / throttle evaluation of its rule.
BlockedUntilElapsed ==
    [][/\ \A ip \in DOMAIN blocked_ips :
             now' < blocked_ips[ip] =>
               ip \in DOMAIN blocked_ips' /\ blocked_ips'[ip] = blocked_ips[ip]
       /\ IsRequest(last') =>
            IF last'.ip \in DOMAIN blocked_ips /\ now < blocked_ips[last'.ip]
            THEN /\ last'.raised = "none"
                 /\ last'.allowed = FALSE
                 /\ last'.reason = "IP blocked"
                 /\ last'.details = [blocked_until |-> blocked_ips[last'.ip]]
                 /\ DOMAIN clients' = DOMAIN clients
                 /\ \A key \in DOMAIN clients :
                        clients'[key].violations = clients[key].violations
            ELSE /\ last'.reason # "IP blocked"
                 /\ last'.reason \in NormalReasons
                 /\ last'.ip \in RuleOf(last').whitelist
                       => last'.reason = "Whitelisted"
                 /\ last'.ip \in RuleOf(last').blacklist \ RuleOf(last').whitelist
                       => last'.reason = "Blacklisted"
                 /\ last'.ip \notin RuleOf(last').blacklist \cup RuleOf(last').whitelist
                       => last'.reason \notin {"Whitelisted", "Blacklisted"}
      ]_vars

\* a call for an IP whose block has run out went through the throttle
C1Witness ==
    /\ IsRequest(last)
    /\ last.blocked_before >= 0
    /\ last.t >= last.blocked_before
    /\ last.reason = "Allowed"

BlacklistedAlwaysBlocked ==
    (IsRequest(last) /\ last.ip \in RuleOf(last).blacklist \ RuleOf(last).whitelist) =>
        /\ last.allowed = FALSE
        /\ last.raised = "none"
        /\ last.first_contact => ~WasBlocked(last)
        /\ ~WasBlocked(last) =>
              /\ last.reason = "Blacklisted"
              /\ last.details = EmptyMap
              /\ last.ip \in DOMAIN blocked_ips
              /\ blocked_ips[last.ip] > now
        /\ WasBlocked(last) => last.reason = "IP blocked"

\* the first call ever made for an IP is made under a blacklisting rule
C3Witness ==
    /\ IsRequest(last)
    /\ last.ip \in RuleOf(last).blacklist
    /\ last.first_contact
    /\ last.reason = "Blacklisted"
    /\ clients # EmptyMap

\* C4: a call under a FIXED_WINDOW rule for an IP that is not blocked,
\* whitelisted or blacklisted returns (true, "Allowed", {}) and does not raise.
FixedWindowFailsOpen ==
    (/\ IsRequest(last)
     /\ RuleOf(last).algorithm = FIXED_WINDOW
     /\ ~WasBlocked(last)
     /\ last.ip \notin RuleOf(last).whitelist \cup RuleOf(last).blacklist) =>
        /\ last.raised = "none"
        /\ last.allowed = TRUE
        /\ last.reason = "Allowed"
        /\ last.details = EmptyMap

\* the primitive as call i left it
After(i) == IF i < Len(hist) THEN hist[i + 1].before ELSE bucket
Accepted == {i \in 1..Len(hist) : hist[i].ok}

\* C5: for a SlidingWindow of max_requests N and window_size W, the accepted
\* calls in any span of W starting at an accepted call number at most N; on
\* a fresh window the calls made within W of the first are accepted exactly
\* when they are among the first N; and a call made W or more after the
\* oldest timestamp in the queue is accepted.
SlidingWindowExact ==
    bucket.kind = "SlidingWindow" =>
        /\ \A i \in Accepted :
              Cardinality({j \in Accepted :
                              /\ hist[j].t >= hist[i].t
                              /\ hist[j].t < hist[i].t + bucket.window_size})
                 <= bucket.max_requests
        /\ \A i \in 1..Len(hist) :
              hist[i].t < hist[1].t + bucket.window_size =>
                 (hist[i].ok <=> i <= bucket.max_requests)
        /\ \A i \in 1..Len(hist) :
              (/\ hist[i].before.requests # <<>>
               /\ hist[i].t >= Head(hist[i].before.requests) + bucket.window_size)
                 => hist[i].ok

\* a full window refused a call and, W after its oldest entry, accepted one
C5Witness ==
    /\ bucket.kind = "SlidingWindow"
    /\ bucket.max_requests = 2
    /\ \E i, j \in 1..Len(hist) :
          /\ i < j
          /\ ~hist[i].ok
          /\ hist[j].ok
          /\ Len(hist[j].before.requests) = 2
          /\ hist[j].t = Head(hist[j].before.requests) + bucket.window_size

\* C6: after every TokenBucket.consume(n), 0 <= tokens <= capacity, and a
\* call that returns false leaves tokens at the refilled level
\* min(capacity, tokens + elapsed * refill_rate): nothing is subtracted.
TokenBucketBounds ==
    bucket.kind = "TokenBucket" =>
        /\ 0 <= bucket.tokens
        /\ bucket.tokens <= bucket.capacity * TokenScale
        /\ \A i \in 1..Len(hist) :
              LET b == hist[i].before
                  gained == (hist[i].t - b.last) * b.rate
              IN  ~hist[i].ok =>
                     /\ After(i).tokens >= b.tokens
                     /\ After(i).tokens = Min(b.capacity * TokenScale, b.tokens + gained)

\* a refused consume after a partial refill, later a granted one
C6Witness ==
    /\ bucket.kind = "TokenBucket"
    /\ \E i, j \in 1..Len(hist) :
          /\ ~hist[i].ok
          /\ After(i).tokens > hist[i].before.tokens
          /\ After(i).tokens < bucket.capacity * TokenScale
          /\ hist[j].ok

\* C7: after every LeakyBucket.add_request(), 0 <= fill <= capacity.
LeakyBucketClamped ==
    bucket.kind = "LeakyBucket" =>
        /\ 0 <= bucket.tokens
        /\ bucket.tokens <= bucket.capacity * TokenScale

\* C8: add_request lowers fill by elapsed * leak_rate (not below 0), accepts
\* and adds 1 iff that leaked fill is below capacity, and otherwise leaves
\* fill at the leaked value; with no time elapsing a fresh bucket accepts
\* exactly its first capacity calls.
LeakyBucketAcceptance ==
    bucket.kind = "LeakyBucket" =>
        /\ \A i \in 1..Len(hist) :
              LET b == hist[i].before
                  drained == b.tokens - (hist[i].t - b.last) * b.rate
                  leaked == IF drained < 0 THEN 0 ELSE drained
              IN  /\ hist[i].ok <=> leaked < b.capacity * TokenScale
                  /\ After(i).tokens = IF hist[i].ok THEN leaked + TokenScale ELSE leaked
        /\ \A i \in 1..Len(hist) :
              hist[i].t = 0 => (hist[i].ok <=> i <= bucket.capacity)

\* a full bucket refused a call and, once the leak had made room, accepted one
C8Witness ==
    /\ bucket.kind = "LeakyBucket"
    /\ bucket.rate > 0
    /\ \E i, j \in 1..Len(hist) :
          /\ i < j
          /\ ~hist[i].ok
          /\ hist[i].t = 0
          /\ hist[j].ok
          /\ hist[j].before.tokens >= bucket.capacity * TokenScale

ReaperSweeps ==
    [][last'.op = "sweep" =>
          /\ \A key \in DOMAIN clients :
                now - clients[key].last_request > 86400 * TicksPerSecond =>
                   key \notin DOMAIN clients' /\ key \notin DOMAIN rate_limiters'
          /\ \A key \in DOMAIN clients' :
                ~(now' - clients'[key].last_request > 86400 * TicksPerSecond)
          /\ \A ip \in DOMAIN blocked_ips' : ~(blocked_ips'[ip] < now')
      ]_vars

\* a sweep has just removed a client that had a throttle primitive
C10Witness ==
    /\ last.op = "sweep"
    /\ last.old_clients # {}
    /\ \A key \in last.old_clients :
          key \notin DOMAIN clients /\ key \notin DOMAIN rate_limiters

(***************************************************************************)
(* DDoSProtection                                                           *)
(***************************************************************************)
AttackDetectionThreshold == 100
MaxPatternCalls == 102      \* analyses made of the one heavily used pair
MaxSideCalls == 1           \* analyses made of each of the other pairs
MaxLimiterCalls == 1        \* is_allowed calls made beside the analyses

DdosPairs == {<<"ip1", "index">>, <<"ip1", "stats">>, <<"ip2", "index">>}

\* the characters of a string, as far as the pattern key can tell them
\* apart: an address may hold ":" (IPv6), a Flask endpoint name does not
Chars(s) ==
    CASE s = "ip1" -> <<"10.0.0.1">>
      [] s = "ip2" -> <<"fe80", ":", ":", "1">>
      [] OTHER -> <<s>>

\* f"{ip_address}:{endpoint}"
PatternKey(ip, endpoint) == Chars(ip) \o <<":">> \o Chars(endpoint)

PatternCount(sp, key) == IF key \in DOMAIN sp THEN sp[key] ELSE 0

AttackDetectedInclusive(count) == count >= AttackDetectionThreshold

AttackDetected(count) == count > AttackDetectionThreshold

\* DDoSProtection.analyze_request_pattern; user_agent is not read
AnalyzeRequestPattern(sp, ip, ua, endpoint) ==
    LET pattern_key == PatternKey(ip, endpoint)
        sp1 == MapPut(sp, pattern_key, PatternCount(sp, pattern_key) + 1)
    IN  IF AttackDetected(sp1[pattern_key])
        THEN [patterns |-> sp1, allowed |-> FALSE,
              reason |-> "DDoS attack detected"]
        ELSE [patterns |-> sp1, allowed |-> TRUE,
              reason |-> "Pattern analysis passed"]

AnalysedCount(pair) == IF pair \in DOMAIN analysed THEN analysed[pair] ELSE 0

\* at most one pair is analysed more than MaxSideCalls times
MayAnalyse(pair) ==
    /\ AnalysedCount(pair) < MaxPatternCalls
    /\ \/ AnalysedCount(pair) < MaxSideCalls
       \/ \A other \in DOMAIN analysed \ {pair} :
             analysed[other] <= MaxSideCalls

\* a variant that also blocks the address in the limiter on detection
AnalyzeAndBlock(ip, ua, endpoint) ==
    LET o == AnalyzeRequestPattern(suspicious_patterns, ip, ua, endpoint)
    IN  /\ MayAnalyse(<<ip, endpoint>>)
        /\ suspicious_patterns' = o.patterns
        /\ analysed' = MapPut(analysed, <<ip, endpoint>>,
                              AnalysedCount(<<ip, endpoint>>) + 1)
        /\ last' = [op |-> "analyze", ip |-> ip, endpoint |-> endpoint,
                    allowed |-> o.allowed, reason |-> o.reason]
        /\ blocked_ips' = IF o.allowed THEN blocked_ips
                          ELSE BlockIp(blocked_ips, ip, now, default_rule)
        /\ UNCHANGED <<now, steps, bucket, hist, default_rule, clients,
                       rate_limiters, contacted, admitted, next_sweep,
                       threadVars>>

\* one call of DDoSProtection.analyze_request_pattern
Analyze(ip, ua, endpoint) ==
    LET o == AnalyzeRequestPattern(suspicious_patterns, ip, ua, endpoint)
    IN  /\ MayAnalyse(<<ip, endpoint>>)
        /\ suspicious_patterns' = o.patterns
        /\ analysed' = MapPut(analysed, <<ip, endpoint>>,
                              AnalysedCount(<<ip, endpoint>>) + 1)
        /\ last' = [op |-> "analyze", ip |-> ip, endpoint |-> endpoint,
                    allowed |-> o.allowed, reason |-> o.reason]
        /\ UNCHANGED <<now, steps, bucket, hist, limiterVars, threadVars>>

\* one call of is_allowed made beside the analyses
LimiterCall(ip, ruleArg) ==
    /\ steps < MaxLimiterCalls
    /\ Request(ip, NoAgent, ruleArg)

NextDDoS ==
    \/ \E p \in DdosPairs, ua \in UserAgents : Analyze(p[1], ua, p[2])
    \/ \E r \in {NoRule, RuleToken, RuleLeaky} : LimiterCall("ip1", r)

SpecDDoS == Init /\ [][NextDDoS]_vars

IsAnalysis(rec) == rec.op = "analyze"

PatternIndependence ==
    [][/\ IsAnalysis(last') =>
            /\ last'.allowed =
                 (AnalysedCount(<<last'.ip, last'.endpoint>>) < 100)
            /\ clients' = clients
            /\ rate_limiters' = rate_limiters
            /\ blocked_ips' = blocked_ips
       /\ IsRequest(last') => suspicious_patterns' = suspicious_patterns]_vars

\* a first analysis passes for an address the limiter holds blocked, after
\* another pair of the same address has been denied
C12Witness ==
    /\ IsAnalysis(last)
    /\ last.allowed
    /\ last.ip \in DOMAIN blocked_ips
    /\ now < blocked_ips[last.ip]
    /\ \E other \in DOMAIN analysed :
          /\ other[1] = last.ip
          /\ other[2] # last.endpoint
          /\ analysed[other] > 100

(***************************************************************************)
(* Bursts of requests under one sliding-window default rule                 *)
(***************************************************************************)
BurstRules ==
    {Rule(SLIDING_WINDOW, n, n + 1, 60, {}, {}) : n \in 1..MaxCapacity}
BurstTimeSteps == {1, TicksPerSecond}

InitBurst ==
    /\ now = 0
    /\ steps = 0
    /\ last = NoCall
    /\ bucket = NoBucket
    /\ hist = <<>>
    /\ default_rule \in BurstRules
    /\ clients = EmptyMap
    /\ rate_limiters = EmptyMap
    /\ blocked_ips = EmptyMap
    /\ contacted = {}
    /\ admitted = EmptyMap
    /\ next_sweep = ReapSleepTicks
    /\ SideIdle

NextBurst ==
    \/ \E ip \in Ips, ua \in UserAgents : Request(ip, ua, NoRule)
    \/ \E d \in BurstTimeSteps : Advance(d)

SpecBurst == InitBurst /\ [][NextBurst]_vars

\* the calls a client key has made so far all fell within the last second
\* and were all allowed
InFirstBurst(key) ==
    key \in DOMAIN clients =>
      /\ clients[key].violations = 0
      /\ now - clients[key].first_seen < TicksPerSecond

\* C13: under a sliding-window rule with requests_per_minute = N, the calls
\* a never-seen client makes within one second (its IP not being blocked by
\* another client's denial) return (true, "Allowed", {}) for the first N and
\* (false, "Rate limit exceeded", details) with details.violations = 1 for
\* call N + 1.
EndToEndBurst ==
    [][(IsRequest(last') /\ ~WasBlocked(last')) =>
         LET key == GetClientKey(last'.ip, last'.ua)
             made == IF key \in DOMAIN clients
                     THEN clients[key].request_count ELSE 0
             N == default_rule.requests_per_minute
         IN  InFirstBurst(key) =>
               /\ made < N =>
                    /\ last'.allowed
                    /\ last'.reason = "Allowed"
                    /\ last'.details = EmptyMap
                    /\ last'.raised = "none"
               /\ made = N =>
                    /\ ~last'.allowed
                    /\ last'.reason = "Rate limit exceeded"
                    /\ last'.details.violations = 1
                    /\ last'.raised = "none"]_vars

\* the third call of a client under N = 2 is denied within the second, time
\* having passed since its first call
C13Witness ==
    /\ IsRequest(last)
    /\ last.reason = "Rate limit exceeded"
    /\ default_rule.requests_per_minute = 2
    /\ LET c == clients[GetClientKey(last.ip, last.ua)]
       IN  /\ c.request_count = 3
           /\ c.violations = 1
           /\ last.details.violations = 1
           /\ now > c.first_seen
           /\ now - c.first_seen < TicksPerSecond

(***************************************************************************)
(* Statistics, block scope and escalation of the sequential limiter         *)
(***************************************************************************)
IsStats(rec) == rec.op = "get_stats"

CurrentlyBlocked == {ip \in DOMAIN blocked_ips : now < blocked_ips[ip]}

\* C14: the 'blocked_ips' value get_stats returns is the number of IPs
\* whose unblock time is in the future at the time of the call.
\* (get_stats returns len(self.blocked_ips), which still holds the blocks
\* that have expired and that neither a later call nor the reaper removed.)
StatsCountCurrentBlocks ==
    IsStats(last) => last.stats.blocked_ips = Cardinality(CurrentlyBlocked)

RECURSIVE SumOver(_, _)
SumOver(f, S) ==
    IF S = {} THEN 0
    ELSE LET x == CHOOSE y \in S : TRUE IN f[x] + SumOver(f, S \ {x})

\* C15: get_stats returns active_clients = the number of ClientInfo records,
\* a threat_level_distribution that counts the clients of each level and
\* sums to active_clients, total_requests = the sum of request_count, and
\* average_requests_per_client = total_requests / max(active_clients, 1),
\* which is 0 when no client is tracked; the call changes no limiter state.
StatsAggregates ==
    [][IsStats(last') =>
         LET st == last'.stats
             dist == st.threat_level_distribution
             counts == [key \in DOMAIN clients |-> clients[key].request_count]
         IN  /\ st.active_clients = Cardinality(DOMAIN clients)
             /\ DOMAIN dist \subseteq ThreatLevel
             /\ \A lvl \in DOMAIN dist :
                   dist[lvl] = Cardinality({key \in DOMAIN clients :
                                             clients[key].threat_level = lvl})
             /\ SumOver(dist, DOMAIN dist) = st.active_clients
             /\ st.total_requests = SumOver(counts, DOMAIN clients)
             /\ st.average_requests_per_client.num = st.total_requests
             /\ st.average_requests_per_client.den =
                  (IF st.active_clients = 0 THEN 1 ELSE st.active_clients)
             /\ st.active_clients = 0 => st.average_requests_per_client.num = 0
             /\ UNCHANGED limiterVars]_vars

\* statistics taken over two clients that made three requests, one of
\* them denied
C15Witness ==
    /\ IsStats(last)
    /\ last.stats.active_clients = 2
    /\ last.stats.total_requests = 3
    /\ last.stats.threat_level_distribution = [lvl \in {LOW} |-> 2]
    /\ last.stats.average_requests_per_client = [num |-> 3, den |-> 2]

\* C16: a block holds for the IP whatever the user agent: while an IP has
\* an unblock time in the future, is_allowed for it returns "IP blocked"
\* with every user agent, also one that was never denied; a call for an IP
\* is answered, and changes clients and rate_limiters, exactly as it would
\* with the blocks of all other IPs absent, and leaves those blocks alone.
BlocksIpScoped ==
    [][IsRequest(last') =>
         LET ip == last'.ip
             own == [i \in DOMAIN blocked_ips \cap {ip} |-> blocked_ips[i]]
             alone == IsAllowed(clients, rate_limiters, own, now,
                                default_rule, ip, last'.ua, last'.rule)
         IN  /\ (last'.reason = "IP blocked") =
                  (ip \in DOMAIN blocked_ips /\ now < blocked_ips[ip])
             /\ last'.allowed = alone.allowed
             /\ last'.reason = alone.reason
             /\ last'.details = alone.details
             /\ clients' = alone.clients
             /\ rate_limiters' = alone.rate_limiters
             /\ \A other \in DOMAIN blocked_ips \ {ip} :
                  /\ other \in DOMAIN blocked_ips'
                  /\ blocked_ips'[other] = blocked_ips[other]]_vars

\* a user agent that never called before is answered "IP blocked" after
\* the denial of another user agent of its IP blocked the IP
C16Witness ==
    /\ IsRequest(last)
    /\ last.reason = "IP blocked"
    /\ last.ua = "agent1"
    /\ GetClientKey(last.ip, "agent1") \notin DOMAIN clients
    /\ GetClientKey(last.ip, NoAgent) \in DOMAIN clients
    /\ clients[GetClientKey(last.ip, NoAgent)].threat_level \in {HIGH, CRITICAL}

\* C17: when the primitive denies a request, violations goes up by exactly
\* 1, the stored threat_level is the level of the record as it is after
\* that increment, the IP gets an unblock time in the future if that level
\* is High or Critical and no block if it is Low or Medium (blocked_ips is
\* then as the block check left it, the other IPs untouched), and the call
\* returns (false, "Rate limit exceeded", {threat_level, violations})
\* with the values after the increment.
EscalationOnDenial ==
    [][(IsRequest(last') /\ last'.reason = "Rate limit exceeded") =>
         LET ip == last'.ip
             key == GetClientKey(ip, last'.ua)
             before == IF key \in DOMAIN clients
                       THEN clients[key].violations ELSE 0
             c == clients'[key]
         IN  /\ c.violations = before + 1
             /\ c.threat_level = ClassifyThreat(c, now)
             /\ ~last'.allowed
             /\ last'.raised = "none"
             /\ last'.details = [threat_level |-> c.threat_level,
                                 violations |-> before + 1]
             /\ c.threat_level \in {HIGH, CRITICAL} =>
                  /\ ip \in DOMAIN blocked_ips'
                  /\ blocked_ips'[ip] > now
                  /\ MapRemove(blocked_ips', {ip}) = MapRemove(blocked_ips, {ip})
             /\ c.threat_level \in {LOW, MEDIUM} =>
                  blocked_ips' = MapRemove(blocked_ips, DOMAIN blocked_ips \cap {ip})]_vars

\* a third denial in a row raises the client to Medium and blocks nothing
C17Witness ==
    /\ IsRequest(last)
    /\ last.reason = "Rate limit exceeded"
    /\ last.details = [threat_level |-> MEDIUM, violations |-> 3]
    /\ blocked_ips = EmptyMap

\* a denial at more than 500 requests per minute raises the client to High
\* and blocks its IP
C17WitnessBlock ==
    /\ IsRequest(last)
    /\ last.reason = "Rate limit exceeded"
    /\ last.details = [threat_level |-> HIGH, violations |-> 1]
    /\ last.ip \in DOMAIN blocked_ips
    /\ blocked_ips[last.ip] > now

ReachedThrottle(rec) ==
    IsRequest(rec) /\ rec.reason \notin {"IP blocked", "Whitelisted", "Blacklisted"}

\* C18: in every is_allowed call that reaches the throttle step under a
\* token-bucket, sliding-window or leaky-bucket rule, the primitive used for
\* the client key is of the kind rule.algorithm names, also after an earlier
\* call for the key under another algorithm.
\* (_get_rate_limiter returns the primitive the key already has, whatever
\* its kind; the method called on it is then missing: AttributeError.)
PrimitiveMatchesRule ==
    (ReachedThrottle(last) /\ PrimitiveFor(RuleOf(last).algorithm) # "none") =>
      LET key == GetClientKey(last.ip, last.ua)
      IN  /\ key \in DOMAIN rate_limiters
          /\ rate_limiters[key].kind = PrimitiveFor(RuleOf(last).algorithm)
          /\ last.raised = "none"

(***************************************************************************)
(* is_allowed called from several threads at once for one client key        *)
(*                                                                          *)
(* is_allowed takes no lock of the RateLimiter: only the call on the        *)
(* primitive runs under a lock (the primitive's own).  Each thread makes one *)
(* call; a step is one access to the shared maps or to an object reached     *)
(* through them.  Here clients and rate_limiters hold references: the ids    *)
(* of the ClientInfo and primitive objects kept in heap.                     *)
(***************************************************************************)
MaxThreadTicks == 1

Threads == {"t1", "t2"}
ThreadIp == "ip1"
ThreadAgent == NoAgent
ThreadKey == GetClientKey(ThreadIp, ThreadAgent)

NoResult == [raised |-> "none", allowed |-> FALSE, reason |-> "none",
             details |-> EmptyMap]
Result(raised, allowed, reason, details) ==
    [raised |-> raised, allowed |-> allowed, reason |-> reason,
     details |-> details]

InitThreads ==
    /\ now = 0
    /\ steps = 0
    /\ last = NoCall
    /\ bucket = NoBucket
    /\ hist = <<>>
    /\ default_rule \in BurstRules
    /\ clients = EmptyMap
    /\ rate_limiters = EmptyMap
    /\ blocked_ips = EmptyMap
    /\ contacted = {}
    /\ admitted = EmptyMap
    /\ next_sweep = ReapSleepTicks
    /\ suspicious_patterns = EmptyMap
    /\ analysed = EmptyMap
    /\ pc = [th \in Threads |-> "check_block"]
    /\ loc = [th \in Threads |->
                [passed |-> FALSE, known |-> FALSE, t |-> 0, obj |-> 0,
                 val |-> 0, prim |-> 0, result |-> NoResult]]
    /\ heap = EmptyMap
    /\ lock = FreeLocks

NewId == Cardinality(DOMAIN heap) + 1

Goto(th, label) == pc' = [pc EXCEPT ![th] = label]
Return(th, result) ==
    /\ pc' = [pc EXCEPT ![th] = "done"]
    /\ loc' = [loc EXCEPT ![th].result = result]

threadFrame == <<now, steps, last, bucket, hist, default_rule, contacted,
                 admitted, next_sweep, ddosVars, lock>>

\* lines 215-230: the block, whitelist and blacklist checks
CheckBlock(th) ==
    LET rule == default_rule
        bl1 == MapRemove(blocked_ips, DOMAIN blocked_ips \cap {ThreadIp})
    IN  /\ pc[th] = "check_block"
        /\ IF IsBlocked(blocked_ips, ThreadIp, now)
           THEN /\ Return(th, Result("none", FALSE, "IP blocked",
                                     [blocked_until |-> blocked_ips[ThreadIp]]))
                /\ UNCHANGED blocked_ips
           ELSE IF OnWhitelist(rule, ThreadIp)
           THEN /\ Return(th, Result("none", TRUE, "Whitelisted", EmptyMap))
                /\ blocked_ips' = bl1
           ELSE IF OnBlacklist(rule, ThreadIp)
           THEN /\ Return(th, Result("none", FALSE, "Blacklisted", EmptyMap))
                /\ blocked_ips' = BlockIp(bl1, ThreadIp, now, default_rule)
           ELSE /\ Goto(th, "client_test")
                /\ loc' = [loc EXCEPT ![th].passed = TRUE]
                /\ blocked_ips' = bl1
        /\ UNCHANGED <<clients, rate_limiters, heap, threadFrame>>

\* lines 170-172: now = datetime.now(); client_key not in self.clients
ClientTest(th) ==
    /\ pc[th] = "client_test"
    /\ loc' = [loc EXCEPT ![th].known = ThreadKey \in DOMAIN clients,
                          ![th].t = now]
    /\ Goto(th, "client_store")
    /\ UNCHANGED <<clients, rate_limiters, blocked_ips, heap, threadFrame>>

\* lines 173-180: store a new ClientInfo under the key, or set last_request
ClientStore(th) ==
    /\ pc[th] = "client_store"
    /\ IF ~loc[th].known
       THEN /\ heap' = MapPut(heap, NewId,
                              NewClientInfo(ThreadIp, ThreadAgent, loc[th].t))
            /\ clients' = MapPut(clients, ThreadKey, NewId)
            /\ Goto(th, "count_read")
            /\ UNCHANGED loc
       ELSE IF ThreadKey \in DOMAIN clients
       THEN /\ heap' = [heap EXCEPT ![clients[ThreadKey]].last_request = loc[th].t]
            /\ Goto(th, "count_read")
            /\ UNCHANGED <<clients, loc>>
       ELSE /\ Return(th, Result("KeyError", FALSE, "KeyError", EmptyMap))
            /\ UNCHANGED <<clients, heap>>
    /\ UNCHANGED <<rate_limiters, blocked_ips, threadFrame>>

\* line 182, first half: load self.clients[client_key].request_count
CountRead(th) ==
    /\ pc[th] = "count_read"
    /\ IF ThreadKey \in DOMAIN clients
       THEN /\ loc' = [loc EXCEPT ![th].obj = clients[ThreadKey],
                                  ![th].val = heap[clients[ThreadKey]].request_count]
            /\ Goto(th, "count_write")
       ELSE Return(th, Result("KeyError", FALSE, "KeyError", EmptyMap))
    /\ UNCHANGED <<clients, rate_limiters, blocked_ips, heap, threadFrame>>

\* line 182, second half: store the sum into the object that was loaded
CountWrite(th) ==
    /\ pc[th] = "count_write"
    /\ heap' = [heap EXCEPT ![loc[th].obj].request_count = loc[th].val + 1]
    /\ Goto(th, "limiter_test")
    /\ UNCHANGED <<loc, clients, rate_limiters, blocked_ips, threadFrame>>

\* line 149: client_key not in self.rate_limiters
LimiterTest(th) ==
    /\ pc[th] = "limiter_test"
    /\ loc' = [loc EXCEPT ![th].known = ThreadKey \in DOMAIN rate_limiters]
    /\ Goto(th, "limiter_store")
    /\ UNCHANGED <<clients, rate_limiters, blocked_ips, heap, threadFrame>>

\* lines 150-164: construct the primitive of the rule and store it
LimiterStore(th) ==
    LET made == GetRateLimiter(EmptyMap, ThreadKey, default_rule, now)
    IN  /\ pc[th] = "limiter_store"
        /\ IF ~loc[th].known /\ ThreadKey \in DOMAIN made
           THEN /\ heap' = MapPut(heap, NewId, made[ThreadKey])
                /\ rate_limiters' = MapPut(rate_limiters, ThreadKey, NewId)
           ELSE UNCHANGED <<heap, rate_limiters>>
        /\ Goto(th, "limiter_get")
        /\ UNCHANGED <<loc, clients, blocked_ips, threadFrame>>

\* line 166: return self.rate_limiters[client_key]
LimiterGet(th) ==
    /\ pc[th] = "limiter_get"
    /\ IF ThreadKey \in DOMAIN rate_limiters
       THEN /\ loc' = [loc EXCEPT ![th].prim = rate_limiters[ThreadKey]]
            /\ Goto(th, "check")
       ELSE Return(th, Result("KeyError", FALSE, "KeyError", EmptyMap))
    /\ UNCHANGED <<clients, rate_limiters, blocked_ips, heap, threadFrame>>

\* lines 239-246 and 270: the call on the primitive, under its own lock
Check(th) ==
    LET prim == heap[loc[th].prim]
        chk == CheckRateLimit(prim, default_rule, now)
    IN  /\ pc[th] = "check"
        /\ IF CheckRaises(prim, default_rule)
           THEN /\ Return(th, Result("AttributeError", FALSE, "AttributeError",
                                     EmptyMap))
                /\ UNCHANGED heap
           ELSE /\ heap' = [heap EXCEPT ![loc[th].prim] = chk[2]]
                /\ IF chk[1]
                   THEN Return(th, Result("none", TRUE, "Allowed", EmptyMap))
                   ELSE Goto(th, "viol_read") /\ UNCHANGED loc
        /\ UNCHANGED <<clients, rate_limiters, blocked_ips, threadFrame>>

\* lines 250-251, first half: load self.clients[client_key].violations
ViolRead(th) ==
    /\ pc[th] = "viol_read"
    /\ IF ThreadKey \in DOMAIN clients
       THEN /\ loc' = [loc EXCEPT ![th].obj = clients[ThreadKey],
                                  ![th].val = heap[clients[ThreadKey]].violations]
            /\ Goto(th, "viol_write")
       ELSE Goto(th, "assess") /\ UNCHANGED loc
    /\ UNCHANGED <<clients, rate_limiters, blocked_ips, heap, threadFrame>>

\* line 251, second half: store the sum into the object that was loaded
ViolWrite(th) ==
    /\ pc[th] = "viol_write"
    /\ heap' = [heap EXCEPT ![loc[th].obj].violations = loc[th].val + 1]
    /\ Goto(th, "assess")
    /\ UNCHANGED <<loc, clients, rate_limiters, blocked_ips, threadFrame>>

\* lines 254-268: assess and store the threat level, block, return
Assessed(th) ==
    /\ pc[th] = "assess"
    /\ IF ThreadKey \notin DOMAIN clients
       THEN /\ Return(th, Result("KeyError", FALSE, "KeyError", EmptyMap))
            /\ UNCHANGED <<heap, blocked_ips>>
       ELSE LET obj == clients[ThreadKey]
                threat_level == ClassifyThreat(heap[obj], now)
            IN  /\ heap' = [heap EXCEPT ![obj].threat_level = threat_level]
                /\ blocked_ips' =
                     IF threat_level \in {HIGH, CRITICAL}
                     THEN BlockIp(blocked_ips, ThreadIp, now, default_rule)
                     ELSE blocked_ips
                /\ Return(th, Result("none", FALSE, "Rate limit exceeded",
                                     [threat_level |-> threat_level,
                                      violations |-> heap[obj].violations]))
    /\ UNCHANGED <<clients, rate_limiters, threadFrame>>

\* the clock moves on by a tick while calls are in progress
ThreadTick ==
    /\ now < MaxThreadTicks
    /\ \E th \in Threads : pc[th] # "done"
    /\ now' = now + 1
    /\ UNCHANGED <<steps, last, bucket, hist, limiterVars, sideVars>>

NextThreads ==
    \/ \E th \in Threads :
          \/ CheckBlock(th)
          \/ ClientTest(th)
          \/ ClientStore(th)
          \/ CountRead(th)
          \/ CountWrite(th)
          \/ LimiterTest(th)
          \/ LimiterStore(th)
          \/ LimiterGet(th)
          \/ Check(th)
          \/ ViolRead(th)
          \/ ViolWrite(th)
          \/ Assessed(th)
    \/ ThreadTick

SpecThreads == InitThreads /\ [][NextThreads]_vars

Returned(th) == pc[th] = "done"
AllowedCalls == {th \in Threads : Returned(th) /\ loc[th].result.reason = "Allowed"}
DeniedCalls ==
    {th \in Threads : Returned(th) /\ loc[th].result.reason = "Rate limit exceeded"}
PassedCalls == {th \in Threads : loc[th].passed}

\* C19: of the concurrent is_allowed calls one client key makes within one
\* 60-second window under a sliding-window rule with requests_per_minute = N,
\* at most N return (true, "Allowed", {}), also when they race on the
\* client's first request.
\* (Two calls that both find the key missing from rate_limiters each store a
\* SlidingWindow of their own, and each is admitted by a fresh window.)
AtMostNAllowed ==
    Cardinality(AllowedCalls) <= default_rule.requests_per_minute

\* C20: once all concurrent calls for a client key have returned, the
\* request_count of its ClientInfo is the number of calls that passed the
\* block, whitelist and blacklist checks and its violations is the number
\* of calls that returned "Rate limit exceeded".
\* (The updates are made outside any lock: an increment made between
\* another call's load and store, or on a ClientInfo that another call then
\* replaces, is lost.)
NoUpdateLost ==
    ((\A th \in Threads : Returned(th)) /\ PassedCalls # {}) =>
      /\ ThreadKey \in DOMAIN clients
      /\ heap[clients[ThreadKey]].request_count = Cardinality(PassedCalls)
      /\ heap[clients[ThreadKey]].violations = Cardinality(DeniedCalls)

(***************************************************************************)
(* Block duration, counters and frames of the sequential limiter            *)
(***************************************************************************)
RecordedBlock(rec) ==
    /\ IsRequest(rec)
    /\ \/ rec.reason = "Blacklisted"
       \/ /\ rec.reason = "Rate limit exceeded"
          /\ rec.details.threat_level \in {HIGH, CRITICAL}

\* C22: when an is_allowed call records a block, by the blacklist or by an
\* escalation to High or Critical, the unblock time stored for the IP is
\* the time of the call plus the block_duration_seconds of the rule in
\* force for that call.
\* (_block_ip reads self.default_rule.block_duration_seconds whatever rule
\* the call was given.)
BlockDurationFollowsRule ==
    RecordedBlock(last) =>
      /\ last.ip \in DOMAIN blocked_ips
      /\ blocked_ips[last.ip] =
           last.t + RuleOf(last).block_duration_seconds * TicksPerSecond

(***************************************************************************)
(* The token bucket: used on its own, or behind a TOKEN_BUCKET default rule *)
(***************************************************************************)
TokenRules == {Rule(TOKEN_BUCKET, 60, n, 60, {}, {}) : n \in 1..MaxCapacity}

InitToken ==
    /\ now = 0
    /\ steps = 0
    /\ last = NoCall
    /\ hist = <<>>
    /\ clients = EmptyMap
    /\ rate_limiters = EmptyMap
    /\ blocked_ips = EmptyMap
    /\ contacted = {}
    /\ admitted = EmptyMap
    /\ next_sweep = ReapSleepTicks
    /\ SideIdle
    /\ \/ /\ bucket \in {TokenBucketNew(c, r, 0) :
                             c \in 0..MaxCapacity, r \in PrimRates}
          /\ default_rule = RuleSliding
       \/ /\ bucket = NoBucket
          /\ default_rule \in TokenRules

\* one call of is_allowed under the TOKEN_BUCKET default rule
TokenRequest(ip, ua) ==
    /\ bucket = NoBucket
    /\ Request(ip, ua, NoRule)

NextToken ==
    \/ \E n \in 1..MaxConsume : Consume(n)
    \/ \E ip \in Ips, ua \in UserAgents : TokenRequest(ip, ua)
    \/ \E d \in PrimTimeSteps : PrimAdvance(d)

SpecToken == InitToken /\ [][NextToken]_vars

\* C23: consume(n) sets tokens to min(capacity, tokens + elapsed *
\* refill_rate) and last_refill to now, then returns true and subtracts n
\* iff that refilled value is >= n, and otherwise returns false and
\* subtracts nothing; with no time elapsing a fresh bucket of capacity C
\* grants exactly the first C single-token calls, and through the limiter
\* a TOKEN_BUCKET rule admits exactly the first burst_limit requests of a
\* client made at one instant.
TokenBucketStep ==
    [][/\ last'.op = "consume" =>
            LET b == bucket
                n == last'.n
                gained == (now - b.last) * b.rate
                refilled == IF b.tokens + gained <= b.capacity * TokenScale
                            THEN b.tokens + gained
                            ELSE b.capacity * TokenScale
            IN  /\ last'.ok = (refilled >= n * TokenScale)
                /\ bucket'.last = now
                /\ last'.ok => bucket'.tokens = refilled - n * TokenScale
                /\ ~last'.ok => bucket'.tokens = refilled
                /\ bucket'.capacity = b.capacity /\ bucket'.rate = b.rate
                /\ (\A i \in 1..Len(hist') :
                       /\ hist'[i].op = "consume"
                       /\ hist'[i].n = 1
                       /\ hist'[i].t = 0)
                   => (last'.ok = (Len(hist') <= b.capacity))
       /\ (IsRequest(last') /\ ~WasBlocked(last')) =>
            LET key == GetClientKey(last'.ip, last'.ua)
                made == IF key \in DOMAIN clients
                        THEN clients[key].request_count ELSE 0
                atOnce == key \in DOMAIN clients => clients[key].first_seen = now
            IN  atOnce =>
                  /\ made < default_rule.burst_limit =>
                       last'.allowed /\ last'.reason = "Allowed"
                  /\ made >= default_rule.burst_limit =>
                       ~last'.allowed /\ last'.reason = "Rate limit exceeded"]_vars

\* a consume(2) granted only thanks to the refill since the last call
C23Witness ==
    /\ last.op = "consume"
    /\ last.ok
    /\ last.n = 2
    /\ last.before.tokens < 2 * TokenScale
    /\ last.t > last.before.last
    /\ bucket.tokens = 0

\* the third request of a client at one instant is denied under
\* burst_limit = 2
C23WitnessBurst ==
    /\ IsRequest(last)
    /\ last.reason = "Rate limit exceeded"
    /\ default_rule.algorithm = TOKEN_BUCKET
    /\ default_rule.burst_limit = 2
    /\ clients[GetClientKey(last.ip, last.ua)].request_count = 3
    /\ clients[GetClientKey(last.ip, last.ua)].first_seen = now

(***************************************************************************)
(* The sequential limiter called with implemented algorithms only           *)
(***************************************************************************)
ImplementedRules == CallRules \ {RuleFixed}

NextImplemented ==
    \/ \E ip \in Ips, ua \in UserAgents, r \in ImplementedRules :
          Request(ip, ua, r)
    \/ \E d \in TimeSteps : Advance(d)
    \/ Sweep

SpecImplemented == Init /\ [][NextImplemented]_vars

ReapStart == ReapAgeTicks + 1
EscalatedIp == "ip1"
EscalatedAgent == NoAgent
EscalatedKey == GetClientKey(EscalatedIp, EscalatedAgent)
PreloadedCalls == {1, 5, 6, 7}

\* the limiter after n calls of the client at time 0 under the default rule
\* (the first allowed, the others denied; the seventh blocks the IP)
RECURSIVE CallsAtOnce(_)
CallsAtOnce(n) ==
    IF n = 0
    THEN Outcome(EmptyMap, EmptyMap, EmptyMap, "none", TRUE, "none", EmptyMap)
    ELSE LET s == CallsAtOnce(n - 1)
         IN  IsAllowed(s.clients, s.rate_limiters, s.blocked_ips, 0,
                       RuleSliding, EscalatedIp, EscalatedAgent, NoRule)

InitEscalated ==
    /\ now = 0
    /\ steps = 0
    /\ last = NoCall
    /\ bucket = NoBucket
    /\ hist = <<>>
    /\ default_rule = RuleSliding
    /\ \E n \in PreloadedCalls :
          /\ clients = CallsAtOnce(n).clients
          /\ rate_limiters = CallsAtOnce(n).rate_limiters
          /\ blocked_ips = CallsAtOnce(n).blocked_ips
    /\ contacted = {EscalatedIp}
    /\ admitted = MapPut(EmptyMap, EscalatedKey, 1)
    /\ next_sweep = ReapSleepTicks
    /\ SideIdle

\* the clock stops one window after the preloaded client has become old
EscalatedAdvance(d) ==
    /\ now + d <= ReapStart + WindowTicks
    /\ Advance(d)

NextEscalated ==
    \/ \E ip \in Ips, ua \in UserAgents : Request(ip, ua, NoRule)
    \/ Request(EscalatedIp, EscalatedAgent, RuleLeaky)
    \/ \E d \in TimeSteps : EscalatedAdvance(d)
    \/ Sweep

SpecEscalated == InitEscalated /\ [][NextEscalated]_vars

\* C26: while a ClientInfo is tracked its violations never decreases (a
\* step leaves it as it is or adds 1), whether the IP gets blocked,
\* unblocked or neither; and a throttle denial of a client whose violations
\* already exceeds 5 records a new block of its IP.
ViolationsNeverDecrease ==
    [][/\ \A key \in DOMAIN clients \cap DOMAIN clients' :
            \/ clients'[key].violations = clients[key].violations
            \/ /\ clients'[key].violations = clients[key].violations + 1
               /\ IsRequest(last')
               /\ last'.reason = "Rate limit exceeded"
               /\ key = GetClientKey(last'.ip, last'.ua)
       /\ (IsRequest(last') /\ last'.reason = "Rate limit exceeded") =>
            LET key == GetClientKey(last'.ip, last'.ua)
            IN  (key \in DOMAIN clients /\ clients[key].violations > 5) =>
                  /\ ~IsBlocked(blocked_ips, last'.ip, now)
                  /\ last'.ip \in DOMAIN blocked_ips'
                  /\ blocked_ips'[last'.ip] > now]_vars

\* the seventh denial of a client, after its first block has expired,
\* blocks its IP again
C26Witness ==
    /\ IsRequest(last)
    /\ last.reason = "Rate limit exceeded"
    /\ last.details.violations = 7
    /\ last.t >= CallsAtOnce(7).blocked_ips[EscalatedIp]
    /\ ~WasBlocked(last)
    /\ blocked_ips[last.ip] > now

\* C27: while the unblock time of an IP is in the future, no call for that
\* IP (any user agent, any rule, blacklisted or not) changes blocked_ips:
\* the stored unblock time is neither extended nor shortened.
BlockUntouchedWhileBlocked ==
    [][(IsRequest(last') /\ IsBlocked(blocked_ips, last'.ip, now)) =>
          /\ blocked_ips' = blocked_ips
          /\ last'.reason = "IP blocked"]_vars

\* a blacklisted IP called again during its block
C27Witness ==
    /\ IsRequest(last)
    /\ WasBlocked(last)
    /\ OnBlacklist(RuleOf(last), last.ip)
    /\ last.t > 0
    /\ blocked_ips[last.ip] = last.blocked_before

\* C28: a call answered "IP blocked", "Whitelisted" or "Blacklisted"
\* leaves clients and rate_limiters unchanged.
ListAnswersLeaveClients ==
    [][(IsRequest(last') /\ last'.reason \in {"IP blocked", "Whitelisted", "Blacklisted"}) =>
          /\ clients' = clients
          /\ rate_limiters' = rate_limiters]_vars

\* a whitelisted call of a client that an earlier call had tracked
C28Witness ==
    /\ IsRequest(last)
    /\ last.reason = "Whitelisted"
    /\ GetClientKey(last.ip, last.ua) \in DOMAIN clients
    /\ clients[GetClientKey(last.ip, last.ua)].request_count = 1

\* C29: every key of rate_limiters is a key of clients.
PrimitivesHaveClients == DOMAIN rate_limiters \subseteq DOMAIN clients

\* a sweep has removed an old client together with its primitive
C29Witness ==
    /\ last.op = "sweep"
    /\ last.old_clients # {}
    /\ DOMAIN clients \cap last.old_clients = {}
    /\ DOMAIN rate_limiters \cap last.old_clients = {}

(***************************************************************************)
(* The reaper thread beside an is_allowed call in progress                  *)
(*                                                                         *)
(* _cleanup_expired sweeps under self.lock; is_allowed does not take that   *)
(* lock, so its steps interleave with the steps of a sweep.  A step of the  *)
(* reaper is one access to the shared maps.  An exception raised inside the *)
(* with block releases the lock on the way to the except clause.           *)
(***************************************************************************)
Reaper == "reaper"
ReapCallers == {"t1", "t2"}
PreloadedReap == {0, 1, 7}

ReaperLocals ==
    [t |-> 0, seen |-> 0, expired_ips |-> {}, old_clients |-> {},
     key |-> "", error |-> "none", failed_before |-> FALSE,
     deleted_fresh |-> FALSE, swept |-> FALSE]

\* the maps hold what n earlier calls of the client at time 0 left behind,
\* more than 24 hours ago
InitReap ==
    /\ now = ReapStart
    /\ steps = 0
    /\ last = NoCall
    /\ bucket = NoBucket
    /\ hist = <<>>
    /\ default_rule = RuleSliding
    /\ \E n \in PreloadedReap :
          LET s == CallsAtOnce(n)
          IN  /\ blocked_ips = s.blocked_ips
              /\ IF n = 0
                 THEN clients = EmptyMap /\ rate_limiters = EmptyMap /\ heap = EmptyMap
                 ELSE /\ clients = MapPut(EmptyMap, EscalatedKey, 1)
                      /\ rate_limiters = MapPut(EmptyMap, EscalatedKey, 2)
                      /\ heap = MapPut(MapPut(EmptyMap, 1, s.clients[EscalatedKey]),
                                       2, s.rate_limiters[EscalatedKey])
    /\ contacted = {}
    /\ admitted = EmptyMap
    /\ next_sweep = ReapSleepTicks
    /\ suspicious_patterns = EmptyMap
    /\ analysed = EmptyMap
    /\ pc = [th \in ReapCallers \cup {Reaper} |->
               IF th = Reaper THEN "sleep" ELSE "check_block"]
    /\ loc = [th \in ReapCallers \cup {Reaper} |->
               IF th = Reaper THEN ReaperLocals
               ELSE [passed |-> FALSE, known |-> FALSE, t |-> 0, obj |-> 0,
                     val |-> 0, prim |-> 0, result |-> NoResult]]
    /\ lock = FreeLocks

reaperFrame == <<now, steps, last, bucket, hist, default_rule, contacted,
                 admitted, next_sweep, ddosVars>>

\* an exception inside the with block: the lock is released and control
\* passes to the except clause
ReaperRaise(error) ==
    /\ lock' = [lock EXCEPT !.limiter = "free"]
    /\ pc' = [pc EXCEPT ![Reaper] = "failed"]
    /\ loc' = [loc EXCEPT ![Reaper].error = error]

\* line 286: time.sleep(300) returns
ReaperWake ==
    /\ pc[Reaper] = "sleep"
    /\ Goto(Reaper, "acquire")
    /\ loc' = [loc EXCEPT ![Reaper].error = "none", ![Reaper].swept = FALSE]
    /\ UNCHANGED <<clients, rate_limiters, blocked_ips, heap, lock, reaperFrame>>

\* lines 288-289: with self.lock: now = datetime.now()
ReaperAcquire ==
    /\ pc[Reaper] = "acquire"
    /\ lock.limiter = "free"
    /\ lock' = [lock EXCEPT !.limiter = Reaper]
    /\ loc' = [loc EXCEPT ![Reaper].t = now]
    /\ Goto(Reaper, "scan_blocked")
    /\ UNCHANGED <<clients, rate_limiters, blocked_ips, heap, reaperFrame>>

\* line 292: the iteration over self.blocked_ips.items() starts
ReaperScanBlocked ==
    /\ pc[Reaper] = "scan_blocked"
    /\ loc' = [loc EXCEPT ![Reaper].seen = Cardinality(DOMAIN blocked_ips)]
    /\ Goto(Reaper, "scanned_blocked")
    /\ UNCHANGED <<clients, rate_limiters, blocked_ips, heap, lock, reaperFrame>>

\* lines 292-293: the iteration ends; it raises RuntimeError when the size
\* of the dict has changed since it started
ReaperScannedBlocked ==
    /\ pc[Reaper] = "scanned_blocked"
    /\ IF Cardinality(DOMAIN blocked_ips) # loc[Reaper].seen
       THEN ReaperRaise("RuntimeError")
       ELSE /\ loc' = [loc EXCEPT ![Reaper].expired_ips =
                                     ExpiredIps(blocked_ips, loc[Reaper].t)]
            /\ Goto(Reaper, "del_blocked")
            /\ UNCHANGED lock
    /\ UNCHANGED <<clients, rate_limiters, blocked_ips, heap, reaperFrame>>

\* lines 294-295: del self.blocked_ips[ip] for the next expired ip
ReaperDelBlocked ==
    /\ pc[Reaper] = "del_blocked"
    /\ IF loc[Reaper].expired_ips = {}
       THEN /\ Goto(Reaper, "scan_clients")
            /\ UNCHANGED <<loc, lock, blocked_ips>>
       ELSE LET ip == CHOOSE ip \in loc[Reaper].expired_ips : TRUE
            IN  IF ip \in DOMAIN blocked_ips
                THEN /\ blocked_ips' = MapRemove(blocked_ips, {ip})
                     /\ loc' = [loc EXCEPT ![Reaper].expired_ips = @ \ {ip}]
                     /\ UNCHANGED <<pc, lock>>
                ELSE /\ ReaperRaise("KeyError")
                     /\ UNCHANGED blocked_ips
    /\ UNCHANGED <<clients, rate_limiters, heap, reaperFrame>>

\* line 298: the iteration over self.clients.items() starts
ReaperScanClients ==
    /\ pc[Reaper] = "scan_clients"
    /\ loc' = [loc EXCEPT ![Reaper].seen = Cardinality(DOMAIN clients)]
    /\ Goto(Reaper, "scanned_clients")
    /\ UNCHANGED <<clients, rate_limiters, blocked_ips, heap, lock, reaperFrame>>

\* lines 298-299: the iteration ends, or raises RuntimeError
ReaperScannedClients ==
    /\ pc[Reaper] = "scanned_clients"
    /\ IF Cardinality(DOMAIN clients) # loc[Reaper].seen
       THEN ReaperRaise("RuntimeError")
       ELSE /\ loc' = [loc EXCEPT ![Reaper].old_clients =
                          {key \in DOMAIN clients :
                             loc[Reaper].t - heap[clients[key]].last_request
                               > ReapAgeTicks}]
            /\ Goto(Reaper, "del_client")
            /\ UNCHANGED lock
    /\ UNCHANGED <<clients, rate_limiters, blocked_ips, heap, reaperFrame>>

\* lines 300-301: del self.clients[key] for the next old client; after the
\* last one the with block ends (line 305 logs the sweep)
ReaperDelClient ==
    /\ pc[Reaper] = "del_client"
    /\ IF loc[Reaper].old_clients = {}
       THEN /\ lock' = [lock EXCEPT !.limiter = "free"]
            /\ Goto(Reaper, "sleep")
            /\ loc' = [loc EXCEPT ![Reaper].swept = TRUE]
            /\ UNCHANGED clients
       ELSE LET key == CHOOSE key \in loc[Reaper].old_clients : TRUE
            IN  IF key \in DOMAIN clients
                THEN /\ clients' = MapRemove(clients, {key})
                     /\ loc' = [loc EXCEPT
                                  ![Reaper].key = key,
                                  ![Reaper].old_clients = @ \ {key},
                                  ![Reaper].deleted_fresh =
                                     @ \/ now - heap[clients[key]].last_request
                                            <= ReapAgeTicks]
                     /\ Goto(Reaper, "del_limiter")
                     /\ UNCHANGED lock
                ELSE /\ ReaperRaise("KeyError")
                     /\ UNCHANGED clients
    /\ UNCHANGED <<rate_limiters, blocked_ips, heap, reaperFrame>>

\* lines 302-303: if key in self.rate_limiters: del self.rate_limiters[key]
ReaperDelLimiter ==
    /\ pc[Reaper] = "del_limiter"
    /\ rate_limiters' = MapRemove(rate_limiters,
                                  DOMAIN rate_limiters \cap {loc[Reaper].key})
    /\ Goto(Reaper, "del_client")
    /\ UNCHANGED <<loc, clients, blocked_ips, heap, lock, reaperFrame>>

\* mutant: the except clause ends the loop
ReaperFailedEndsLoop ==
    /\ pc[Reaper] = "failed"
    /\ Goto(Reaper, "done")
    /\ loc' = [loc EXCEPT ![Reaper].failed_before = TRUE]
    /\ UNCHANGED <<clients, rate_limiters, blocked_ips, heap, lock, reaperFrame>>

\* lines 306-307: except Exception: logger.error(...), and the loop goes on
ReaperFailed ==
    /\ pc[Reaper] = "failed"
    /\ Goto(Reaper, "sleep")
    /\ loc' = [loc EXCEPT ![Reaper].failed_before = TRUE]
    /\ UNCHANGED <<clients, rate_limiters, blocked_ips, heap, lock, reaperFrame>>

ReaperStep ==
    \/ ReaperWake
    \/ ReaperAcquire
    \/ ReaperScanBlocked
    \/ ReaperScannedBlocked
    \/ ReaperDelBlocked
    \/ ReaperScanClients
    \/ ReaperScannedClients
    \/ ReaperDelClient
    \/ ReaperDelLimiter
    \/ ReaperFailed

CallerStep ==
    \E th \in ReapCallers :
       \/ CheckBlock(th)
       \/ ClientTest(th)
       \/ ClientStore(th)
       \/ CountRead(th)
       \/ CountWrite(th)
       \/ LimiterTest(th)
       \/ LimiterStore(th)
       \/ LimiterGet(th)
       \/ Check(th)
       \/ ViolRead(th)
       \/ ViolWrite(th)
       \/ Assessed(th)

NextReap == CallerStep \/ ReaperStep

SpecReap == InitReap /\ [][NextReap]_vars

\* the reaper is a daemon thread that runs as long as the process does
SpecReapFair == SpecReap /\ WF_vars(ReaperStep)

ReaperOutside == pc[Reaper] \in {"sleep", "acquire", "failed"}

\* C21: under any interleaving of a sweep with an is_allowed call in
\* progress, the call never fails on a client record the reaper removed
\* between its steps, the reaper never deletes a client whose last_request
\* was refreshed within the last 24 hours, and once both are outside their
\* critical steps no primitive is in rate_limiters without its ClientInfo
\* in clients.
\* (is_allowed never takes self.lock, so the sweep's lock excludes nothing.)
ReaperExcludesRequests ==
    /\ \A th \in ReapCallers : loc[th].result.raised # "KeyError"
    /\ ~loc[Reaper].deleted_fresh
    /\ (ReaperOutside /\ \A th \in ReapCallers : Returned(th)) =>
          DOMAIN rate_limiters \subseteq DOMAIN clients

\* C24: a sweep that raises does not end the reaper loop: the lock is free
\* whenever the reaper is outside the with block, also after a failure, and
\* every failed sweep is followed by the start of another sweep.
ReaperKeepsSweeping ==
    /\ [](ReaperOutside => lock.limiter = "free")
    /\ (pc[Reaper] = "failed") ~> (pc[Reaper] = "scan_blocked")

\* a sweep that starts, holding the lock, after a sweep that failed because
\* a map changed during its iteration
C24Witness ==
    /\ loc[Reaper].failed_before
    /\ loc[Reaper].error = "none"
    /\ pc[Reaper] = "scan_blocked"
    /\ lock.limiter = Reaper

\* a sweep has just failed on a map that changed while it was iterated
C24WitnessFailed ==
    /\ pc[Reaper] = "failed"
    /\ loc[Reaper].error = "RuntimeError"
    /\ lock.limiter = "free"

(***************************************************************************)
(* Concurrent calls of DDoSProtection                                       *)
(*                                                                         *)
(* analyze_request_pattern and get_attack_stats do all their accesses to    *)
(* suspicious_patterns inside `with self.lock`.  Each thread makes one call; *)
(* a step is one access to the map.  Here analysed counts the calls that    *)
(* have returned and admitted those that returned allowed, per pair.        *)
(***************************************************************************)
DdosCallers == {"a1", "a2"}
StatsCaller == "s1"
DdosThreadPairs == {<<"ip1", "index">>, <<"ip2", "index">>}
PreloadedPair == <<"ip1", "index">>
PreloadedAnalyses == {0, AttackDetectionThreshold - 1, AttackDetectionThreshold}

PairKey(pair) == PatternKey(pair[1], pair[2])

\* the map and the number of calls allowed after n more calls for
\* PreloadedPair, one after the other (the calls are made in two halves,
\* the first evaluated before the second begins)
RECURSIVE AnalysesFrom(_, _)
AnalysesFrom(s, n) ==
    IF n = 0 THEN s
    ELSE IF n = 1
    THEN LET o == AnalyzeRequestPattern(s.patterns, PreloadedPair[1], NoAgent,
                                        PreloadedPair[2])
         IN  [patterns |-> o.patterns,
              allowed |-> s.allowed + (IF o.allowed THEN 1 ELSE 0)]
    ELSE LET half == AnalysesFrom(s, n \div 2)
         IN  IF half.allowed <= n \div 2 + s.allowed
             THEN AnalysesFrom(half, n - (n \div 2))
             ELSE half

AnalysesAtOnce(n) == AnalysesFrom([patterns |-> EmptyMap, allowed |-> 0], n)

NoStats == [suspicious_patterns |-> 0, total_suspicious_requests |-> 0,
            top_attackers |-> <<>>]

InitDdosThreads ==
    /\ now = 0
    /\ steps = 0
    /\ last = NoCall
    /\ bucket = NoBucket
    /\ hist = <<>>
    /\ default_rule = RuleSliding
    /\ clients = EmptyMap
    /\ rate_limiters = EmptyMap
    /\ blocked_ips = EmptyMap
    /\ contacted = {}
    /\ next_sweep = ReapSleepTicks
    /\ heap = EmptyMap
    /\ \E n \in PreloadedAnalyses :
          /\ suspicious_patterns = AnalysesAtOnce(n).patterns
          /\ analysed = IF n = 0 THEN EmptyMap ELSE MapPut(EmptyMap, PreloadedPair, n)
          /\ admitted = IF n = 0 THEN EmptyMap
                        ELSE MapPut(EmptyMap, PreloadedPair, AnalysesAtOnce(n).allowed)
    /\ pc = [th \in DdosCallers \cup {StatsCaller} |-> "acquire"]
    /\ \E pairOf \in [DdosCallers -> DdosThreadPairs] :
          loc = [th \in DdosCallers \cup {StatsCaller} |->
                   IF th = StatsCaller THEN [stats |-> NoStats]
                   ELSE [pair |-> pairOf[th], val |-> 0, allowed |-> FALSE,
                         reason |-> "none"]]
    /\ lock = FreeLocks

ddosThreadFrame == <<now, steps, last, bucket, hist, default_rule, clients,
                     rate_limiters, blocked_ips, contacted, next_sweep, heap>>

\* mutant: the with statement does not wait for the lock
DdosAcquireNoWait(th) ==
    /\ pc[th] = "acquire"
    /\ lock' = [lock EXCEPT !.ddos = th]
    /\ Goto(th, "inc_read")
    /\ UNCHANGED <<loc, suspicious_patterns, analysed, admitted, ddosThreadFrame>>

\* lines 341-343: pattern_key = ...; with self.lock
DdosAcquire(th) ==
    /\ pc[th] = "acquire"
    /\ lock.ddos = "free"
    /\ lock' = [lock EXCEPT !.ddos = th]
    /\ Goto(th, "inc_read")
    /\ UNCHANGED <<loc, suspicious_patterns, analysed, admitted, ddosThreadFrame>>

\* line 344, first half: load suspicious_patterns[pattern_key]; the
\* defaultdict stores 0 under a missing key
DdosIncRead(th) ==
    LET key == PairKey(loc[th].pair)
    IN  /\ pc[th] = "inc_read"
        /\ suspicious_patterns' =
              IF key \in DOMAIN suspicious_patterns THEN suspicious_patterns
              ELSE MapPut(suspicious_patterns, key, 0)
        /\ loc' = [loc EXCEPT ![th].val = PatternCount(suspicious_patterns, key)]
        /\ Goto(th, "inc_write")
        /\ UNCHANGED <<lock, analysed, admitted, ddosThreadFrame>>

\* line 344, second half: store the sum
DdosIncWrite(th) ==
    /\ pc[th] = "inc_write"
    /\ suspicious_patterns' =
          MapPut(suspicious_patterns, PairKey(loc[th].pair), loc[th].val + 1)
    /\ Goto(th, "test")
    /\ UNCHANGED <<loc, lock, analysed, admitted, ddosThreadFrame>>

\* lines 347-356: compare the counter with the threshold, return; the with
\* block ends and releases the lock
DdosTest(th) ==
    LET pair == loc[th].pair
        detected == AttackDetected(PatternCount(suspicious_patterns, PairKey(pair)))
    IN  /\ pc[th] = "test"
        /\ loc' = [loc EXCEPT ![th].allowed = ~detected,
                              ![th].reason = IF detected THEN "DDoS attack detected"
                                             ELSE "Pattern analysis passed"]
        /\ pc' = [pc EXCEPT ![th] = "done"]
        /\ lock' = [lock EXCEPT !.ddos = "free"]
        /\ analysed' = MapPut(analysed, pair, AnalysedCount(pair) + 1)
        /\ admitted' = MapPut(admitted, pair,
                              (IF pair \in DOMAIN admitted THEN admitted[pair] ELSE 0)
                                + (IF detected THEN 0 ELSE 1))
        /\ UNCHANGED <<suspicious_patterns, ddosThreadFrame>>

\* line 360: with self.lock
StatsAcquire ==
    /\ pc[StatsCaller] = "acquire"
    /\ lock.ddos = "free"
    /\ lock' = [lock EXCEPT !.ddos = StatsCaller]
    /\ Goto(StatsCaller, "len")
    /\ UNCHANGED <<loc, suspicious_patterns, analysed, admitted, ddosThreadFrame>>

\* line 362: len(self.suspicious_patterns)
StatsLen ==
    /\ pc[StatsCaller] = "len"
    /\ loc' = [loc EXCEPT ![StatsCaller].stats.suspicious_patterns =
                            Cardinality(DOMAIN suspicious_patterns)]
    /\ Goto(StatsCaller, "sum")
    /\ UNCHANGED <<lock, suspicious_patterns, analysed, admitted, ddosThreadFrame>>

RECURSIVE SumCounts(_, _)
SumCounts(sp, keys) ==
    IF keys = {} THEN 0
    ELSE LET key == CHOOSE key \in keys : TRUE
         IN  sp[key] + SumCounts(sp, keys \ {key})

\* line 363: sum(self.suspicious_patterns.values())
StatsSum ==
    /\ pc[StatsCaller] = "sum"
    /\ loc' = [loc EXCEPT ![StatsCaller].stats.total_suspicious_requests =
                            SumCounts(suspicious_patterns, DOMAIN suspicious_patterns)]
    /\ Goto(StatsCaller, "sorted")
    /\ UNCHANGED <<lock, suspicious_patterns, analysed, admitted, ddosThreadFrame>>

TopLimit == 10

\* the items of the map by decreasing count
RECURSIVE SortedItems(_, _)
SortedItems(sp, keys) ==
    IF keys = {} THEN <<>>
    ELSE LET key == CHOOSE key \in keys : \A other \in keys : sp[key] >= sp[other]
         IN  <<(<<key, sp[key]>>)>> \o SortedItems(sp, keys \ {key})

TopAttackers(sp) ==
    LET items == SortedItems(sp, DOMAIN sp)
    IN  SubSeq(items, 1, Min(Len(items), TopLimit))

\* lines 364-366: sorted(...)[:10], return; the with block ends
StatsSorted ==
    /\ pc[StatsCaller] = "sorted"
    /\ loc' = [loc EXCEPT ![StatsCaller].stats.top_attackers =
                            TopAttackers(suspicious_patterns)]
    /\ pc' = [pc EXCEPT ![StatsCaller] = "done"]
    /\ lock' = [lock EXCEPT !.ddos = "free"]
    /\ UNCHANGED <<suspicious_patterns, analysed, admitted, ddosThreadFrame>>

NextDdosThreads ==
    \/ \E th \in DdosCallers :
          \/ DdosAcquire(th)
          \/ DdosIncRead(th)
          \/ DdosIncWrite(th)
          \/ DdosTest(th)
    \/ StatsAcquire
    \/ StatsLen
    \/ StatsSum
    \/ StatsSorted

SpecDdosThreads == InitDdosThreads /\ [][NextDdosThreads]_vars

RECURSIVE SumReported(_)
SumReported(items) ==
    IF items = <<>> THEN 0 ELSE Head(items)[2] + SumReported(Tail(items))

====
